---------------------------- MODULE Spec2Model ----------------------------
(***************************************************************************)
(* ResponseCurveComponent of SimpleEQ (Source/PluginEditor.cpp).           *)
(*                                                                         *)
(* The component listens to every parameter of the processor's parameter  *)
(* store, raises an atomic flag when one changes, and on a 60 Hz timer     *)
(* consumes the flag, rebuilds the coefficients of its own filter chain    *)
(* (monoChain) and requests a repaint.  paint() samples the chain's        *)
(* magnitude response into a polyline.                                     *)
(*                                                                         *)
(* Threads: the constructor, the destructor, timerCallback and paint run   *)
(* on the message thread, one at a time.  parameterValueChanged is called  *)
(* by whichever thread changed the parameter, after the parameter's value  *)
(* was stored, so it interleaves with the steps of timerCallback.          *)
(***************************************************************************)
EXTENDS Integers, Sequences, FiniteSets, TLC

VARIABLES
    phase,            \* lifecycle of the component: new, alive, dead
    listeners,        \* parameters on whose listener list the component is
    apvts,            \* the parameter store: current value of every parameter
    pending,          \* parameter whose value was stored, callback not yet made
    parameterChanged, \* juce::Atomic<bool> parameterChanged
    pc,               \* position of timerCallback: idle, snap, update
    chainSettings,    \* timerCallback's local snapshot (kept after the run)
    monoChain,        \* the component's filter chain
    tick,             \* bookkeeping of the current / last timerCallback
    sinceCAS,         \* parameterValueChanged calls since the last compare-and-set
    lastDelivery,     \* what the last notification did: none, called, skipped
    bounds,           \* the component's size: width and height in pixels
    painted,          \* outcome of paint(): none, done, crashed
    gains,            \* paint(): the cascade magnitude of every pixel, before dB
    coefReads,        \* paint(): per pixel, the stages whose coefficients it read
    mags,             \* paint(): std::vector<double> mags
    magReads,         \* paint(): the indices of mags read while building the path
    responseCurve,    \* paint(): the points of the path
    heap,             \* coefficient objects by handle
    stageHandle,      \* the handle held by the Peak stage
    published,        \* coefficient objects published so far
    readerPc,         \* position of a reader of the Peak stage's coefficients
    readerHandle,     \* the handle the reader obtained
    readerSeen        \* the coefficient values the reader has read so far

componentVars == << phase, listeners, apvts, pending, parameterChanged, pc,
                    chainSettings, monoChain, tick, sinceCAS, lastDelivery >>

paintVars == << bounds, painted, gains, coefReads, mags, magReads, responseCurve >>

handOffVars == << heap, stageHandle, published, readerPc, readerHandle, readerSeen >>

vars == << componentVars, paintVars, handOffVars >>

None == "none"

\* Coefficient values one coefficient object holds.
NumFields == 2

\* Threads that read a stage's coefficients: the audio callback and paint().
Readers == { "process", "paint" }

\* Most parameterValueChanged calls counted between two compare-and-sets.
MaxNotifs == 2

----------------------------------------------------------------------------
(* The parameter store *)

\* The seven parameters the editor attaches sliders to.
ParamOrder ==
    << "Peak Freq", "Peak Gain", "Peak Quality", "HighCut Freq",
       "LowCut Freq", "HighCut Slope", "LowCut Slope" >>

NumParams == Len(ParamOrder)

ParamIds == { ParamOrder[i] : i \in 1..NumParams }

\* Slope_12 .. Slope_48 as the choice index 0..3.
Slopes == 0..3

SlopeDb(s) == 12 * (s + 1)

\* The values a parameter takes in the model.
ParamValues(p) ==
    CASE p \in {"LowCut Slope", "HighCut Slope"} -> Slopes
      [] OTHER -> {0}

\* audioProcessor.getSampleRate()
getSampleRate == 44100

\* getChainSettings(apvts): the current value of every parameter.
getChainSettings(store) ==
    [ peakFreq     |-> store["Peak Freq"],
      peakGain     |-> store["Peak Gain"],
      peakQuality  |-> store["Peak Quality"],
      lowCutFreq   |-> store["LowCut Freq"],
      highCutFreq  |-> store["HighCut Freq"],
      lowCutSlope  |-> store["LowCut Slope"],
      highCutSlope |-> store["HighCut Slope"] ]

\* The snapshot variable before any timerCallback has read the store.
NoSettings ==
    [ peakFreq |-> -1, peakGain |-> -1, peakQuality |-> -1, lowCutFreq |-> -1,
      highCutFreq |-> -1, lowCutSlope |-> -1, highCutSlope |-> -1 ]

----------------------------------------------------------------------------
(* Coefficients and the chain *)

\* Stage slots of a cut group: get<0> .. get<3>.
NumCutStages == 4

CutSlots == 0..(NumCutStages - 1)

\* The coefficients of a freshly constructed IIR filter.
DefaultCoefficients == << "default", 0, 0, 0, 0 >>

makePeakFilter(cs, sampleRate) ==
    << "peak", cs.peakFreq, cs.peakGain, cs.peakQuality, sampleRate >>

\* One coefficient set per biquad of a Butterworth highpass of order
\* 2 * (slope + 1); stage i implements pole pair i.
makeLowCutFilter(cs, sampleRate) ==
    [ i \in 0..cs.lowCutSlope |->
        << "highpass", cs.lowCutFreq, 2 * (cs.lowCutSlope + 1), i, sampleRate >> ]

makeHighCutFilter(cs, sampleRate) ==
    [ i \in 0..cs.highCutSlope |->
        << "lowpass", cs.highCutFreq, 2 * (cs.highCutSlope + 1), i, sampleRate >> ]

\* updateCoefficients(old, replacements): the stage's handle now names the
\* replacement object.
updateCoefficients(old, replacements) == replacements

updateCutFilter_Toggle(chain, coefficients, slope) ==
    [ i \in CutSlots |->
        IF i <= slope
        THEN [ coefficients |-> updateCoefficients(chain[i].coefficients, coefficients[i]),
               bypassed     |-> ~chain[i].bypassed ]
        ELSE [ coefficients |-> chain[i].coefficients, bypassed |-> TRUE ] ]

\* updateCutFilter(chain, coefficients, slope): stages 0..slope get their
\* coefficients and are switched on, the trailing stages are bypassed and
\* keep whatever coefficients they held.
updateCutFilter(chain, coefficients, slope) ==
    [ i \in CutSlots |->
        IF i <= slope
        THEN [ coefficients |-> updateCoefficients(chain[i].coefficients, coefficients[i]),
               bypassed     |-> FALSE ]
        ELSE [ coefficients |-> chain[i].coefficients, bypassed |-> TRUE ] ]

\* A default-constructed MonoChain: nothing bypassed, default coefficients.
InitialChain ==
    [ peak    |-> [ coefficients |-> DefaultCoefficients, bypassed |-> FALSE ],
      lowCut  |-> [ i \in CutSlots |->
                      [ coefficients |-> DefaultCoefficients, bypassed |-> FALSE ] ],
      highCut |-> [ i \in CutSlots |->
                      [ coefficients |-> DefaultCoefficients, bypassed |-> FALSE ] ] ]

UpdateChain_LowSlopeForHighCut(chain, cs) ==
    [ peak    |-> [ chain.peak EXCEPT
                      !.coefficients = updateCoefficients(@, makePeakFilter(cs, getSampleRate)) ],
      lowCut  |-> updateCutFilter(chain.lowCut,
                                  makeLowCutFilter(cs, getSampleRate), cs.lowCutSlope),
      highCut |-> updateCutFilter(chain.highCut,
                                  makeHighCutFilter(cs, getSampleRate), cs.lowCutSlope) ]

\* Lines 122-129 of timerCallback: the Coefficient Publisher run.
UpdateChain(chain, cs) ==
    [ peak    |-> [ chain.peak EXCEPT
                      !.coefficients = updateCoefficients(@, makePeakFilter(cs, getSampleRate)) ],
      lowCut  |-> updateCutFilter(chain.lowCut,
                                  makeLowCutFilter(cs, getSampleRate), cs.lowCutSlope),
      highCut |-> updateCutFilter(chain.highCut,
                                  makeHighCutFilter(cs, getSampleRate), cs.highCutSlope) ]

----------------------------------------------------------------------------
(* Initial state: the processor and its parameters exist, the component   *)
(* has not been constructed yet.                                           *)

NoTick ==
    [ n |-> 0, found |-> FALSE, same |-> FALSE, runs |-> 0, repaints |-> 0,
      done |-> FALSE ]

ComponentInit ==
    /\ phase = "new"
    /\ listeners = {}
    /\ apvts \in [ ParamIds -> {0} ]
    /\ pending = None
    /\ parameterChanged = FALSE
    /\ pc = "idle"
    /\ chainSettings = NoSettings
    /\ monoChain = InitialChain
    /\ tick = NoTick
    /\ sinceCAS = 0
    /\ lastDelivery = None

\* paint() has not run; the component has no size yet.
PaintIdle ==
    /\ bounds = [ w |-> 0, h |-> 0 ]
    /\ painted = "none"
    /\ gains = << >>
    /\ coefReads = << >>
    /\ mags = << >>
    /\ magReads = {}
    /\ responseCurve = << >>

\* The Peak stage holds the coefficient object it was constructed with and
\* nobody is reading it.
HandOffIdle ==
    /\ heap = [ h \in {0} |-> [ k \in 1..NumFields |-> 0 ] ]
    /\ stageHandle = 0
    /\ published = 0
    /\ readerPc = [ r \in Readers |-> "idle" ]
    /\ readerHandle = [ r \in Readers |-> 0 ]
    /\ readerSeen = [ r \in Readers |-> << >> ]

Init == ComponentInit /\ PaintIdle /\ HandOffIdle

----------------------------------------------------------------------------
(* Constructor and destructor (message thread) *)

RECURSIVE AddListeners(_, _)
\* The constructor's loop from position i: param->addListener(this).
AddListeners(ls, i) ==
    IF i > NumParams THEN ls
    ELSE AddListeners(ls \cup { ParamOrder[i] }, i + 1)

RECURSIVE RemoveListeners(_, _)
\* The destructor's loop from position i: param->removeListener(this).
RemoveListeners(ls, i) ==
    IF i > NumParams THEN ls
    ELSE RemoveListeners(ls \ { ParamOrder[i] }, i + 1)

\* Lines 92-96: the listener lists the constructor leaves the component on.
CtorListeners(ls) == AddListeners(ls, 1)

DtorListeners_RemovesNothing(ls) == ls

\* Lines 103-107: the listener lists the destructor leaves the component on.
DtorListeners(ls) == RemoveListeners(ls, 1)

\* ResponseCurveComponent(p): the members are constructed (the flag false,
\* the chain default), the component subscribes to every parameter and
\* starts the 60 Hz timer.
Constructor ==
    /\ UNCHANGED << paintVars, handOffVars >>
    /\ phase = "new"
    /\ listeners' = CtorListeners(listeners)
    /\ parameterChanged' = FALSE
    /\ monoChain' = InitialChain
    /\ phase' = "alive"
    /\ UNCHANGED << apvts, pending, pc, chainSettings, tick, sinceCAS,
                    lastDelivery >>

\* ~ResponseCurveComponent(): the component unsubscribes; the Timer base
\* stops the timer and the members are destroyed.  The message thread is
\* not inside timerCallback.
Destructor ==
    /\ UNCHANGED << paintVars, handOffVars >>
    /\ phase = "alive"
    /\ pc = "idle"
    /\ listeners' = DtorListeners(listeners)
    /\ phase' = "dead"
    /\ parameterChanged' = FALSE
    /\ monoChain' = InitialChain
    /\ chainSettings' = NoSettings
    /\ tick' = NoTick
    /\ sinceCAS' = 0
    /\ lastDelivery' = None
    /\ UNCHANGED << apvts, pending, pc >>

----------------------------------------------------------------------------
(* A parameter change (any thread): the value is stored, then the         *)
(* parameter calls the listeners registered at that moment.               *)

\* A thread stores value v in parameter p; its call of the listeners follows.
Store(p, v) ==
    /\ pending = None
    /\ apvts' = [ apvts EXCEPT ![p] = v ]
    /\ pending' = p
    /\ UNCHANGED << phase, listeners, parameterChanged, pc, chainSettings,
                    monoChain, tick, sinceCAS, lastDelivery >>
    /\ UNCHANGED << paintVars, handOffVars >>

\* Any parameter is given any of its values.
StoreValue == \E p \in ParamIds : \E v \in ParamValues(p) : Store(p, v)

\* The parameters the host automates in AutomationSpec.
AutomatedParams == { "Peak Gain", "LowCut Slope" }

\* The host's automation thread changes one of the automated parameters.
Automate == \E p \in AutomatedParams : \E v \in ParamValues(p) : Store(p, v)

parameterValueChanged_SetsFalse ==
    /\ UNCHANGED << paintVars, handOffVars >>
    /\ pending \in listeners
    /\ sinceCAS < MaxNotifs
    /\ parameterChanged' = FALSE
    /\ sinceCAS' = sinceCAS + 1
    /\ lastDelivery' = "called"
    /\ pending' = None
    /\ UNCHANGED << phase, listeners, apvts, pc, chainSettings, monoChain,
                    tick >>

\* Lines 110-113: the parameter calls the component, which sets the flag.
parameterValueChanged ==
    /\ UNCHANGED << paintVars, handOffVars >>
    /\ pending \in listeners
    /\ sinceCAS < MaxNotifs
    /\ parameterChanged' = TRUE
    /\ sinceCAS' = sinceCAS + 1
    /\ lastDelivery' = "called"
    /\ pending' = None
    /\ UNCHANGED << phase, listeners, apvts, pc, chainSettings, monoChain,
                    tick >>

\* The component is not on the parameter's listener list: no call is made.
NotifyNobody ==
    /\ UNCHANGED << paintVars, handOffVars >>
    /\ pending /= None
    /\ pending \notin listeners
    /\ lastDelivery' = "skipped"
    /\ pending' = None
    /\ UNCHANGED << phase, listeners, apvts, parameterChanged, pc,
                    chainSettings, monoChain, tick, sinceCAS >>

----------------------------------------------------------------------------
(* timerCallback (message thread, while the timer runs) *)

TimerCompareAndSet_IgnoresResult ==
    /\ UNCHANGED << paintVars, handOffVars >>
    /\ phase = "alive"
    /\ pc = "idle"
    /\ parameterChanged' = FALSE
    /\ sinceCAS' = 0
    /\ tick' = [ n |-> sinceCAS, found |-> parameterChanged, same |-> FALSE,
                 runs |-> 0, repaints |-> 0, done |-> FALSE ]
    /\ pc' = "snap"
    /\ UNCHANGED << phase, listeners, apvts, pending, chainSettings,
                    monoChain, lastDelivery >>

\* Line 117: parameterChanged.compareAndSetBool(false, true).  When the flag
\* is false the callback returns at once.
TimerCompareAndSet ==
    /\ UNCHANGED << paintVars, handOffVars >>
    /\ phase = "alive"
    /\ pc = "idle"
    /\ parameterChanged' = FALSE
    /\ sinceCAS' = 0
    /\ tick' = [ n |-> sinceCAS, found |-> parameterChanged, same |-> FALSE,
                 runs |-> 0, repaints |-> 0, done |-> ~parameterChanged ]
    /\ pc' = IF parameterChanged THEN "snap" ELSE "idle"
    /\ UNCHANGED << phase, listeners, apvts, pending, chainSettings,
                    monoChain, lastDelivery >>

\* Line 120: auto chainSettings = getChainSettings(audioProcessor.apvts).
TimerSnapshot ==
    /\ UNCHANGED << paintVars, handOffVars >>
    /\ pc = "snap"
    /\ chainSettings' = getChainSettings(apvts)
    /\ tick' = [ tick EXCEPT !.same = (chainSettings = getChainSettings(apvts)) ]
    /\ pc' = "update"
    /\ UNCHANGED << phase, listeners, apvts, pending, parameterChanged,
                    monoChain, sinceCAS, lastDelivery >>

TimerUpdate_ClearsFlag ==
    /\ UNCHANGED << paintVars, handOffVars >>
    /\ pc = "update"
    /\ monoChain' = UpdateChain(monoChain, chainSettings)
    /\ tick' = [ tick EXCEPT !.runs = @ + 1, !.repaints = @ + 1, !.done = TRUE ]
    /\ parameterChanged' = FALSE
    /\ pc' = "idle"
    /\ UNCHANGED << phase, listeners, apvts, pending, chainSettings, sinceCAS,
                    lastDelivery >>

\* Lines 122-132: the chain is updated and repaint() is called.
TimerUpdate ==
    /\ UNCHANGED << paintVars, handOffVars >>
    /\ pc = "update"
    /\ monoChain' = UpdateChain(monoChain, chainSettings)
    /\ tick' = [ tick EXCEPT !.runs = @ + 1, !.repaints = @ + 1, !.done = TRUE ]
    /\ pc' = "idle"
    /\ UNCHANGED << phase, listeners, apvts, pending, parameterChanged,
                    chainSettings, sinceCAS, lastDelivery >>

----------------------------------------------------------------------------
(* paint(): the response curve *)

\* Widest and tallest component painted.
MaxWidth == 3

MaxHeight == 2

\* A linear gain as the fraction << numerator, denominator >>.
One == << 1, 1 >>

RECURSIVE Reduce(_, _)
Reduce(n, d) ==
    IF n > 0 /\ n % 10 = 0 /\ d % 10 = 0 THEN Reduce(n \div 10, d \div 10)
    ELSE << n, d >>

\* mag *= m
Times(a, b) == Reduce(a[1] * b[1], a[2] * b[2])

RECURSIVE Log10(_)
\* log10 of a power of ten.
Log10(n) == IF n < 10 THEN 0 ELSE 1 + Log10(n \div 10)

Max(a, b) == IF a >= b THEN a ELSE b

\* Decibels::gainToDecibels(gain): 20 log10(gain), not below -100 dB.
gainToDecibels(gain) ==
    IF gain[1] > 0
    THEN Max(-100, 20 * (Log10(gain[1]) - Log10(gain[2])))
    ELSE -100

\* mapToLog10(i / w, 20, 20000) = 20 * 10^(3 i / w), as the decade of the
\* analysis band the frequency lies in: 0 (20-200 Hz), 1, 2 (2-20 kHz).
mapToLog10(i, w) == (3 * i) \div w

\* coefficients->getMagnitudeForFrequency(freq, sampleRate), for the
\* coefficient sets of the model: a high pass stage loses 40 dB in the lowest
\* decade, a low pass stage 20 dB in the highest, a peak filter acts on the
\* middle one.
getMagnitudeForFrequency(coefficients, freq) ==
    CASE coefficients[1] = "highpass" -> IF freq = 0 THEN << 1, 100 >> ELSE One
      [] coefficients[1] = "lowpass"  -> IF freq = 2 THEN << 1, 10 >> ELSE One
      [] coefficients[1] = "peak" ->
            IF freq /= 1 THEN One
            ELSE IF coefficients[3] > 0 THEN << 10, 1 >>
            ELSE IF coefficients[3] < 0 THEN << 1, 100 >>
            ELSE One
      [] OTHER -> One

\* The nine stages in the order paint() visits them (lines 161-180).
StageOrder ==
    << << "peak", 0 >>,
       << "lowCut", 0 >>, << "lowCut", 1 >>, << "lowCut", 2 >>, << "lowCut", 3 >>,
       << "highCut", 0 >>, << "highCut", 1 >>, << "highCut", 2 >>, << "highCut", 3 >> >>

NumStages == Len(StageOrder)

StageAt(chain, st) == IF st[1] = "peak" THEN chain.peak ELSE chain[st[1]][st[2]]

\* One of the nine statements
\*     if (!isBypassed<k>()) mag *= get<k>().coefficients->getMagnitude...
MultiplyStage(chain, freq, k, acc) ==
    IF ~StageAt(chain, StageOrder[k]).bypassed
    THEN [ mag   |-> Times(acc.mag, getMagnitudeForFrequency(
                                       StageAt(chain, StageOrder[k]).coefficients, freq)),
           reads |-> acc.reads \cup { k } ]
    ELSE acc

RECURSIVE MultiplyFrom(_, _, _, _)
MultiplyFrom(chain, freq, k, acc) ==
    IF k > NumStages THEN acc
    ELSE MultiplyFrom(chain, freq, k + 1, MultiplyStage(chain, freq, k, acc))

PixelMagnitude_PeakAlwaysOn(chain, freq) ==
    MultiplyFrom(chain, freq, 2,
        [ mag   |-> Times(One, getMagnitudeForFrequency(chain.peak.coefficients, freq)),
          reads |-> { 1 } ])

\* Lines 158-180: the magnitude of one pixel, and the stages whose
\* coefficients were read for it.
PixelMagnitude(chain, freq) ==
    MultiplyFrom(chain, freq, 1, [ mag |-> One, reads |-> {} ])

\* jmap(v, sMin, sMax, tMin, tMax) = tMin + (tMax - tMin) (v - sMin) / (sMax - sMin),
\* as the numerator over (sMax - sMin).
jmap(v, sMin, sMax, tMin, tMax) == tMin * (sMax - sMin) + (tMax - tMin) * (v - sMin)

\* What the vertical coordinates are multiples of: 1 / (24 - (-24)).
MapScale == 24 - (-24)

map_Clamped(input, outputMin, outputMax) ==
    jmap(IF input < -24 THEN -24 ELSE IF input > 24 THEN 24 ELSE input,
         -24, 24, outputMin, outputMax)

\* Lines 189-192: the lambda map.
map(input, outputMin, outputMax) == jmap(input, -24, 24, outputMin, outputMax)

\* getLocalBounds(): the component's own area, at the origin.
getLocalBounds == [ x |-> 0, y |-> 0, w |-> bounds.w, h |-> bounds.h ]

\* A point of the path: x, the vertical coordinate times MapScale, and the dB
\* value it was mapped from.
PathPoint(x, db, area) ==
    [ x |-> x, y |-> map(db, area.y + area.h, area.y), db |-> db ]

\* What a read of the first element of an empty vector may give.
Garbage == { -100, 0, 500 }

\* paint(g).  With a width of 0 the vector is empty and mags.front() is
\* undefined: the read faults, or gives whatever lies there.
paint ==
    /\ phase = "alive"
    /\ pc = "idle"
    /\ painted = "none"
    /\ LET responseArea == getLocalBounds
           w  == responseArea.w
           px == [ i \in 0..(w - 1) |-> PixelMagnitude(monoChain, mapToLog10(i, w)) ]
           m  == [ i \in 0..(w - 1) |-> gainToDecibels(px[i].mag) ]
       IN  /\ gains' = [ i \in 0..(w - 1) |-> px[i].mag ]
           /\ coefReads' = [ i \in 0..(w - 1) |-> px[i].reads ]
           /\ mags' = m
           /\ magReads' = { 0 } \cup 1..(w - 1)
           /\ IF w > 0
              THEN /\ responseCurve' =
                        << PathPoint(responseArea.x, m[0], responseArea) >>
                        \o [ i \in 1..(w - 1) |->
                               PathPoint(responseArea.x + i, m[i], responseArea) ]
                   /\ painted' = "done"
              ELSE \/ /\ responseCurve' = << >>
                      /\ painted' = "crashed"
                   \/ \E v \in Garbage :
                      /\ responseCurve' = << PathPoint(responseArea.x, v, responseArea) >>
                      /\ painted' = "done"
    /\ UNCHANGED << bounds, componentVars, handOffVars >>

\* Chain settings and chains paint() is given.
PaintSettings ==
    { [ peakFreq |-> 0, peakGain |-> g, peakQuality |-> 0, lowCutFreq |-> 0,
        highCutFreq |-> 0, lowCutSlope |-> l, highCutSlope |-> h ] :
          g \in { -1, 1 }, l \in { 1, 3 }, h \in { 0, 3 } }

StageIndices == 1..NumStages

WithBypass(chain, flags) ==
    [ peak    |-> [ chain.peak EXCEPT !.bypassed = flags[1] ],
      lowCut  |-> [ i \in CutSlots |-> [ chain.lowCut[i] EXCEPT !.bypassed = flags[2 + i] ] ],
      highCut |-> [ i \in CutSlots |->
                      [ chain.highCut[i] EXCEPT !.bypassed = flags[2 + NumCutStages + i] ] ] ]

PaintInit ==
    /\ phase = "alive"
    /\ listeners = ParamIds
    /\ apvts \in [ ParamIds -> {0} ]
    /\ pending = None
    /\ parameterChanged = FALSE
    /\ pc = "idle"
    /\ chainSettings = NoSettings
    /\ \E cs \in PaintSettings : \E flags \in [ StageIndices -> BOOLEAN ] :
          monoChain = WithBypass(UpdateChain(InitialChain, cs), flags)
    /\ tick = NoTick
    /\ sinceCAS = 0
    /\ lastDelivery = None
    /\ bounds \in [ w : 0..MaxWidth, h : 0..MaxHeight ]
    /\ painted = "none"
    /\ gains = << >>
    /\ coefReads = << >>
    /\ mags = << >>
    /\ magReads = {}
    /\ responseCurve = << >>
    /\ HandOffIdle

PaintNext == paint

PaintSpec == PaintInit /\ [][PaintNext]_vars

----------------------------------------------------------------------------
(* Hand-off of coefficient objects between the publisher and a reader *)

\* Coefficient objects published in a run of the model.
MaxPublishes == 2

\* The coefficient object the factory builds for the n-th settings: every
\* value of it comes from those settings.
CoefficientObject(n) == [ k \in 1..NumFields |-> n ]

Publish_InPlace ==
    /\ published < MaxPublishes
    /\ published' = published + 1
    /\ heap' = [ heap EXCEPT ![stageHandle] = CoefficientObject(published + 1) ]
    /\ UNCHANGED << stageHandle, readerPc, readerHandle, readerSeen,
                    componentVars, paintVars >>

\* Lines 122-123: makePeakFilter builds a new coefficient object and
\* updateCoefficients puts its handle into the stage.
Publish ==
    /\ published < MaxPublishes
    /\ published' = published + 1
    /\ heap' = [ h \in DOMAIN heap \cup { published + 1 } |->
                   IF h \in DOMAIN heap THEN heap[h]
                   ELSE CoefficientObject(published + 1) ]
    /\ stageHandle' = updateCoefficients(stageHandle, published + 1)
    /\ UNCHANGED << readerPc, readerHandle, readerSeen, componentVars, paintVars >>

\* peak.coefficients-> : the reader obtains the stage's current object.
ReaderAcquire(r) ==
    /\ readerPc[r] = "idle"
    /\ readerHandle' = [ readerHandle EXCEPT ![r] = stageHandle ]
    /\ readerSeen' = [ readerSeen EXCEPT ![r] = << >> ]
    /\ readerPc' = [ readerPc EXCEPT ![r] = "reading" ]
    /\ UNCHANGED << heap, stageHandle, published, componentVars, paintVars >>

\* The reader reads the next coefficient value of the object it obtained.
ReaderReadValue(r) ==
    /\ readerPc[r] = "reading"
    /\ readerSeen' = [ readerSeen EXCEPT
                         ![r] = Append(@, heap[readerHandle[r]][Len(@) + 1]) ]
    /\ readerPc' = [ readerPc EXCEPT
                       ![r] = IF Len(readerSeen[r]) + 1 = NumFields
                              THEN "done" ELSE "reading" ]
    /\ UNCHANGED << heap, stageHandle, published, readerHandle, componentVars,
                    paintVars >>

\* The reader has used the values; it reads again for the next pixel or block.
ReaderFinish(r) ==
    /\ readerPc[r] = "done"
    /\ readerPc' = [ readerPc EXCEPT ![r] = "idle" ]
    /\ UNCHANGED << heap, stageHandle, published, readerHandle, readerSeen,
                    componentVars, paintVars >>

HandOffNext ==
    \/ Publish
    \/ \E r \in Readers : ReaderAcquire(r)
    \/ \E r \in Readers : ReaderReadValue(r)
    \/ \E r \in Readers : ReaderFinish(r)

HandOffSpec == Init /\ [][HandOffNext]_vars

----------------------------------------------------------------------------

Next ==
    \/ Constructor
    \/ Destructor
    \/ StoreValue
    \/ parameterValueChanged
    \/ NotifyNobody
    \/ TimerCompareAndSet
    \/ TimerSnapshot
    \/ TimerUpdate

Spec == Init /\ [][Next]_vars

AutomationNext ==
    \/ Constructor
    \/ Destructor
    \/ Automate
    \/ parameterValueChanged
    \/ NotifyNobody
    \/ TimerCompareAndSet
    \/ TimerSnapshot
    \/ TimerUpdate

\* Host automation of two parameters against the running timer: the timer
\* keeps firing while the component lives, and a thread that stored a value
\* goes on to call the listeners.
AutomationSpec ==
    /\ Init
    /\ [][AutomationNext]_vars
    /\ WF_vars(TimerCompareAndSet)
    /\ WF_vars(TimerSnapshot)
    /\ WF_vars(TimerUpdate)
    /\ WF_vars(parameterValueChanged)
    /\ WF_vars(NotifyNobody)

----------------------------------------------------------------------------
(* Properties *)

\* parameterValueChanged has been called on the component.
everNotified == lastDelivery = "called"

\* The stages of a cut group that are switched on.
ActiveSlots(group) == { i \in CutSlots : ~group[i].bypassed }

\* The chain holds exactly what a publisher run with settings cs installs.
ChainHolds(chain, cs) ==
    /\ chain.peak.coefficients = makePeakFilter(cs, getSampleRate)
    /\ ~chain.peak.bypassed
    /\ \A i \in CutSlots :
          /\ chain.lowCut[i].bypassed <=> (i > cs.lowCutSlope)
          /\ i <= cs.lowCutSlope =>
                chain.lowCut[i].coefficients = makeLowCutFilter(cs, getSampleRate)[i]
          /\ chain.highCut[i].bypassed <=> (i > cs.highCutSlope)
          /\ i <= cs.highCutSlope =>
                chain.highCut[i].coefficients = makeHighCutFilter(cs, getSampleRate)[i]

\* C1: when N >= 1 parameterValueChanged calls fell between the previous
\* compare-and-set and this one, the finished timerCallback made exactly one
\* publisher run and exactly one repaint request.
C1_Coalescing ==
    (tick.done /\ tick.n >= 1) => (tick.runs = 1 /\ tick.repaints = 1)

C1_Witness ==
    tick.done /\ tick.n >= 2 /\ tick.runs = 1 /\ tick.repaints = 1

\* C2: the flag is false until the first notification, and a timerCallback
\* whose compare-and-set finds it false returns without a publisher run or a
\* repaint request, leaving the flag and the whole chain as they were.
C2_IdleTick ==
    /\ [](~everNotified => ~parameterChanged)
    /\ [][ (TimerCompareAndSet /\ ~parameterChanged) =>
              /\ pc' = "idle"
              /\ tick'.done /\ tick'.runs = 0 /\ tick'.repaints = 0
              /\ parameterChanged' = parameterChanged
              /\ monoChain' = monoChain ]_vars

C2_Witness ==
    /\ phase = "alive" /\ pc = "idle"
    /\ tick.done /\ ~tick.found /\ tick.runs = 0
    /\ monoChain /= InitialChain

\* C3: after a completed publisher run, each cut group has exactly s/12
\* stages switched on, s being the slope of the run's snapshot in dB/oct;
\* they are stages 0 .. s/12 - 1 and the trailing stages are bypassed.
C3_SlopeStages ==
    (phase = "alive" /\ pc = "idle" /\ chainSettings /= NoSettings) =>
        /\ Cardinality(ActiveSlots(monoChain.lowCut)) * 12
              = SlopeDb(chainSettings.lowCutSlope)
        /\ ActiveSlots(monoChain.lowCut)
              = 0..(SlopeDb(chainSettings.lowCutSlope) \div 12 - 1)
        /\ Cardinality(ActiveSlots(monoChain.highCut)) * 12
              = SlopeDb(chainSettings.highCutSlope)
        /\ ActiveSlots(monoChain.highCut)
              = 0..(SlopeDb(chainSettings.highCutSlope) \div 12 - 1)

\* A run at 12 dB/oct for the low cut and 48 dB/oct for the high cut, after
\* the low cut had been at 48 dB/oct (its last stage still holds those
\* coefficients).
C3_Witness ==
    /\ phase = "alive" /\ pc = "idle" /\ chainSettings /= NoSettings
    /\ chainSettings.lowCutSlope = 0
    /\ chainSettings.highCutSlope = 3
    /\ monoChain.lowCut[3].coefficients /= DefaultCoefficients
    /\ monoChain.lowCut[3].bypassed

\* C8: a publisher run whose snapshot equals the snapshot of the run before
\* it leaves every stage's coefficients and bypass flag as that run left them.
C8_Idempotent ==
    [][ (TimerUpdate /\ tick.same) => monoChain' = monoChain ]_vars

C8_Witness ==
    /\ tick.done /\ tick.runs = 1 /\ tick.same
    /\ chainSettings.lowCutSlope = 1
    /\ monoChain.lowCut[3].coefficients /= DefaultCoefficients

\* C7: while the component lives it is on the listener list of every
\* parameter, so every notification made then calls it and raises the flag;
\* once the destructor has run it is on none, and no notification calls it.
C7_ListenerLifecycle ==
    /\ [](phase = "alive" => listeners = ParamIds)
    /\ [](phase = "dead" => listeners = {})
    /\ [][ parameterValueChanged => phase = "alive" ]_vars
    /\ [][ (phase = "alive" /\ pending /= None /\ pending' = None) =>
              (parameterValueChanged /\ parameterChanged') ]_vars

\* A parameter changed after the destructor had run, and nothing was called.
C7_Witness ==
    phase = "dead" /\ listeners = {} /\ lastDelivery = "skipped" /\ pending = None

\* C9 as stated: whenever the flag is false, no timerCallback is running and
\* a notification has occurred, the chain holds what the current parameter
\* values give.
C9_AsStated ==
    (phase = "alive" /\ ~parameterChanged /\ pc = "idle" /\ everNotified) =>
        ChainHolds(monoChain, getChainSettings(apvts))

\* The chain is current in every quiet state in which no stored value still
\* awaits its parameterValueChanged call.
C9_Quiescent ==
    (phase = "alive" /\ ~parameterChanged /\ pc = "idle" /\ everNotified
        /\ pending = None) =>
            ChainHolds(monoChain, getChainSettings(apvts))

\* C9: no update is lost.  A value stored while the component lives is
\* followed by a timerCallback that has consumed the flag and is yet to read
\* its snapshot, and that callback completes its publisher run; in quiet
\* states with no notification outstanding the chain is current.
C9_NoLostUpdate ==
    /\ []C9_Quiescent
    /\ (phase = "alive" /\ pending /= None) ~> (pc = "snap" \/ phase = "dead")
    /\ (pc = "snap") ~> (pc = "idle" /\ tick.done /\ tick.runs = 1)

\* The parameters were changed during a publisher run and a later run has
\* caught up with them.
C9_Witness ==
    /\ phase = "alive" /\ ~parameterChanged /\ pc = "idle" /\ pending = None
    /\ tick.done /\ tick.runs = 1 /\ tick.n >= 1
    /\ chainSettings.lowCutSlope = 2
    /\ monoChain.lowCut[3].coefficients /= DefaultCoefficients
    /\ ChainHolds(monoChain, getChainSettings(apvts))

\* The stages that are switched on, as positions of StageOrder.
ActiveStages(chain) ==
    { k \in StageIndices : ~StageAt(chain, StageOrder[k]).bypassed }

RECURSIVE ProductOver(_, _, _)
\* The product of the magnitudes of the stages in S.
ProductOver(S, chain, freq) ==
    IF S = {} THEN One
    ELSE LET k == CHOOSE x \in S : TRUE
         IN  Times(getMagnitudeForFrequency(StageAt(chain, StageOrder[k]).coefficients, freq),
                   ProductOver(S \ { k }, chain, freq))

\* C5: for every pixel, the magnitude paint() computes is the product of the
\* magnitudes of exactly the stages that are not bypassed, the coefficients
\* of no bypassed stage are read, and with every stage bypassed it is 1.
C5_CascadeProduct ==
    painted = "done" =>
        \A i \in 0..(bounds.w - 1) :
            /\ gains[i] = ProductOver(ActiveStages(monoChain), monoChain,
                                      mapToLog10(i, bounds.w))
            /\ coefReads[i] = ActiveStages(monoChain)
            /\ ActiveStages(monoChain) = {} => gains[i] = One

\* Peak and the first low-cut stage bypassed, the second low-cut stage on:
\* the lowest pixel shows that stage's loss alone.
C5_Witness ==
    /\ painted = "done" /\ bounds.w = 3
    /\ monoChain.peak.bypassed
    /\ monoChain.lowCut[0].bypassed /\ ~monoChain.lowCut[1].bypassed
    /\ monoChain.lowCut[2].bypassed /\ monoChain.lowCut[3].bypassed
    /\ monoChain.lowCut[0].coefficients /= DefaultCoefficients
    /\ gains[0] = << 1, 100 >>
    /\ coefReads[0] \cap { 1, 2, 3 } = { 3 }

\* The vertical extent of the display area, in units of 1 / MapScale.
AreaTop == getLocalBounds.y * MapScale

AreaBottom == (getLocalBounds.y + getLocalBounds.h) * MapScale

\* C6 as stated: every point of the path lies between the top and the bottom
\* of the display area.
C6_AsStated ==
    painted = "done" =>
        \A k \in 1..Len(responseCurve) :
            AreaTop <= responseCurve[k].y /\ responseCurve[k].y <= AreaBottom

\* C6: paint() maps the decibel values as gainToDecibels gives them, without
\* clamping: a point lies in the display area when its value is within
\* -24 .. +24 dB, below the bottom when the value is under -24 dB and above
\* the top when it is over +24 dB (the area having a height).
C6_LinearMap ==
    painted = "done" =>
        /\ \A i \in 0..(bounds.w - 1) :
              /\ mags[i] = gainToDecibels(gains[i])
              /\ responseCurve[i + 1].db = mags[i]
        /\ \A k \in 1..Len(responseCurve) :
              LET pt == responseCurve[k]
              IN  /\ (-24 <= pt.db /\ pt.db <= 24) =>
                        (AreaTop <= pt.y /\ pt.y <= AreaBottom)
                  /\ (bounds.h > 0 /\ pt.db < -24) => pt.y > AreaBottom
                  /\ (bounds.h > 0 /\ pt.db > 24) => pt.y < AreaTop

\* A curve with one point at the -100 dB floor, below the bottom of the area,
\* and one within the display range.
C6_Witness ==
    /\ painted = "done" /\ bounds.w = 3 /\ bounds.h > 0
    /\ responseCurve[1].db = -100 /\ responseCurve[1].y > AreaBottom
    /\ responseCurve[2].db = 20 /\ responseCurve[2].y < AreaBottom

\* C10 as stated: paint() ends with exactly as many points as the width,
\* point i at the left edge + i, having read mags only inside [0, width).
C10_AsStated ==
    painted /= "none" =>
        /\ painted = "done"
        /\ Len(responseCurve) = bounds.w
        /\ \A k \in 1..Len(responseCurve) :
              responseCurve[k].x = getLocalBounds.x + (k - 1)
        /\ magReads \subseteq 0..(bounds.w - 1)

\* The same for the widths of at least one pixel.
C10_PositiveWidth ==
    (painted /= "none" /\ bounds.w >= 1) =>
        /\ painted = "done"
        /\ Len(responseCurve) = bounds.w
        /\ \A k \in 1..Len(responseCurve) :
              responseCurve[k].x = getLocalBounds.x + (k - 1)
        /\ magReads \subseteq 0..(bounds.w - 1)

=============================================================================
